---- MODULE Spec2Model ----
(***************************************************************************)
(* pipelinex.extras.hooks.mlflow_time_logger: MLflowTimeLoggerHook.        *)
(*                                                                         *)
(* The hook keeps three class-level dicts (begin timestamps, end           *)
(* timestamps, durations) keyed by a metric name derived from the node,    *)
(* and reacts to three callbacks of the host: before_node_run,             *)
(* after_node_run and after_pipeline_run.                                  *)
(*                                                                         *)
(* Strings are sequences of one-character strings, so that replace, split  *)
(* and slicing are computed as Python computes them.  A Python dict is a   *)
(* function whose domain is its set of keys; the metric-name strings used  *)
(* as keys are numbered (name_table).  A callback that raises leaves the   *)
(* effects it had before the raise; the exception is recorded in           *)
(* last.raised.  The calls to mlflow and to the file system succeed or     *)
(* raise, as the caller of the callback draws it.                          *)
(***************************************************************************)
EXTENDS Integers, Sequences, FiniteSets

VARIABLES
    _time_begin_dict,   \* class attribute, shared by all instances
    _time_end_dict,     \* class attribute, shared by all instances
    _time_dict,         \* class attribute, shared by all instances
    hooks,              \* the constructed instances: id -> attributes
    mlflow_found,       \* find_spec("mlflow") of this process
    plotly_found,       \* find_spec("plotly") of this process
    now,                \* the last value time.time() returned
    last,               \* the last callback and its observable effects
    hostHook,           \* host: the hook registered for the run in progress (0: none)
    todo,               \* host: nodes of the run not yet started
    running,            \* host: nodes started and not yet ended
    failed,             \* host: a callback of the run in progress raised
    task,               \* host: the node of the last task callback
    owner,              \* host: per metric name, the node whose start wrote the begin entry
    node_in,            \* name derivation: the node given
    name_out            \* name derivation: the metric name produced

classVars == <<_time_begin_dict, _time_end_dict, _time_dict>>
envVars   == <<mlflow_found, plotly_found>>
hostVars  == <<hostHook, todo, running, failed, task, owner>>
nameVars  == <<node_in, name_out>>
vars == <<_time_begin_dict, _time_end_dict, _time_dict, hooks, mlflow_found,
          plotly_found, now, last, hostHook, todo, running, failed, task, owner,
          node_in, name_out>>

----------------------------------------------------------------------------
(* Bounds of the model *)

\* time.time() takes the values 0..MaxTime
MaxTime == 2
\* length of the free part of a function name in the name derivation
MaxLen == 3

----------------------------------------------------------------------------
(* Strings *)

\* the slice [:250] of the function name
MaxFuncNameLen == 250

\* the factor from seconds to the chart's milliseconds
MsPerSec == 1000

\* the None object: what dict.get returns for a missing key (timestamps are >= 0)
None == -1

Min(a, b) == IF a <= b THEN a ELSE b

\* str.replace(c, "")
str_remove(s, c) == SelectSeq(s, LAMBDA x : x # c)

\* str.split(c)[0]: the text before the first c, all of s when there is none
split_first(s, c) ==
    IF \E i \in 1..Len(s) : s[i] = c
    THEN SubSeq(s, 1, (CHOOSE i \in 1..Len(s) :
                          s[i] = c /\ \A j \in 1..(i - 1) : s[j] # c) - 1)
    ELSE s

\* str.split(c)[-1]: the text after the last c, all of s when there is none
split_last(s, c) ==
    IF \E i \in 1..Len(s) : s[i] = c
    THEN SubSeq(s, (CHOOSE i \in 1..Len(s) :
                       s[i] = c /\ \A j \in (i + 1)..Len(s) : s[j] # c) + 1, Len(s))
    ELSE s

\* s[:n]
str_slice(s, n) == SubSeq(s, 1, Min(n, Len(s)))

RECURSIVE str_join(_, _)
\* sep.join(parts)
str_join(sep, parts) ==
    IF parts = <<>> THEN <<>>
    ELSE IF Len(parts) = 1 THEN parts[1]
    ELSE parts[1] \o sep \o str_join(sep, Tail(parts))

\* "_time_to_run "
MetricPrefix == <<"_", "t", "i", "m", "e", "_", "t", "o", "_", "r", "u", "n", " ">>
\* " -- "
MetricSep == <<" ", "-", "-", " ">>
\* " - "
OutputSep == <<" ", "-", " ">>

\* the function-name part of the metric name
func_name_part(f) ==
    str_slice(split_last(split_first(str_remove(str_remove(f, "<"), ">"), " "), "."),
              MaxFuncNameLen)

\* "_time_to_run {} -- {}".format(func_name, " - ".join(node.outputs))
format_metric(fn, outputs) ==
    MetricPrefix \o fn \o MetricSep \o str_join(OutputSep, outputs)

\* mutant: the slice is applied to the formatted name, not to the function name
_get_metric_name_sliced_whole(node) ==
    str_slice(format_metric(split_last(split_first(
                  str_remove(str_remove(node._func_name, "<"), ">"), " "), "."),
                            node.outputs),
              MaxFuncNameLen)

_get_metric_name(node) ==
    format_metric(func_name_part(node._func_name), node.outputs)

----------------------------------------------------------------------------
(* Python dicts: functions with a finite domain, the set of keys *)

EmptyDict == <<>>

\* {k: v}
dict_of(k, v) == [x \in {k} |-> v]

\* mutant: dict.get(k, 0), a default of zero instead of None
dict_get_zero(d, k) == IF k \in DOMAIN d THEN d[k] ELSE 0

\* dict.get(k): the value under k, None when k is missing
dict_get(d, k) == IF k \in DOMAIN d THEN d[k] ELSE None

\* mutant: the dict is rebound to {k: v}, the other keys are lost
dict_assign(d, k, v) == dict_of(k, v)

\* mutant: dict.setdefault(k, v), an existing value is kept
dict_setdefault(d, k, v) == [x \in DOMAIN d \cup {k} |-> IF x \in DOMAIN d THEN d[x] ELSE v]

\* dict.update({k: v}): replaces the value under k, or adds the key
dict_update(d, k, v) == [x \in DOMAIN d \cup {k} |-> IF x = k THEN v ELSE d[x]]

\* mutant: None counts as a number, the subtraction never raises
sub_never_raises(a, b) == FALSE

\* a - b raises TypeError when an operand is None
sub_raises(a, b) == a = None \/ b = None

\* mutant: begin - end
duration_reversed(e, b) == b - e

\* end - begin
duration(e, b) == e - b

----------------------------------------------------------------------------
(* The nodes of the pipelines the host runs.  X and Y are two distinct     *)
(* tasks whose metric names coincide, Z has a name of its own.             *)

NodeX == [id |-> 1, _func_name |-> <<"<", "f", ">">>, outputs |-> << <<"o">> >>]
NodeY == [id |-> 2, _func_name |-> <<"m", ".", "f">>, outputs |-> << <<"o">> >>]
NodeZ == [id |-> 3, _func_name |-> <<"g">>, outputs |-> << <<"p">>, <<"q">> >>]

Nodes == {NodeX, NodeY, NodeZ}

\* the metric-name strings of the nodes, numbered: equal strings are one dict key
MetricNames == {_get_metric_name(n) : n \in Nodes}

name_table ==
    CHOOSE f \in [1..Cardinality(MetricNames) -> MetricNames] :
        \A m \in MetricNames : \E i \in DOMAIN f : f[i] = m

Keys == DOMAIN name_table

\* self._metric_name_func(node), with the default metric_name_func: the dict key
metric_name_func ==
    [n \in Nodes |-> CHOOSE i \in Keys : name_table[i] = _get_metric_name(n)]

Times == 0..MaxTime

\* tempfile.gettempdir() + "/_gantt.html"
DefaultGanttPath == "/tmp/_gantt.html"

\* a gantt_filepath argument other than None (None is written "None")
CustomGanttPath == "out/gantt.html"

HookIds == {1, 2}

NodeIds == {n.id : n \in Nodes}

node_by_id == [i \in NodeIds |-> CHOOSE n \in Nodes : n.id = i]

\* the arguments the two instances are constructed with:
\* MLflowTimeLoggerHook() and
\* MLflowTimeLoggerHook(enable_mlflow=False, gantt_filepath="out/gantt.html")
HookArgs ==
    [h \in HookIds |->
        IF h = 1
        THEN [enable_mlflow |-> TRUE, enable_plotly |-> TRUE, gantt_filepath |-> "None"]
        ELSE [enable_mlflow |-> FALSE, enable_plotly |-> TRUE,
              gantt_filepath |-> CustomGanttPath]]

----------------------------------------------------------------------------
(* Construction *)

\* mutant: the enable argument alone, the module is not probed
capability_unprobed(found, enable) == enable

\* find_spec(module) and enable
capability(found, enable) == found /\ enable

\* MLflowTimeLoggerHook.__init__
__init__(found_mlflow, found_plotly, enable_mlflow, enable_plotly, gantt_filepath) ==
    [enable_mlflow |-> capability(found_mlflow, enable_mlflow),
     enable_plotly |-> capability(found_plotly, enable_plotly),
     gantt_filepath |-> gantt_filepath]

----------------------------------------------------------------------------
(* The callbacks.  `last` records what the call did that can be observed:  *)
(* the exception it raised, the log record, the metrics forwarded, the     *)
(* chart rows, the file written and the artifact uploaded.                 *)

NoCall ==
    [op |-> "none", hook |-> 0, name |-> 0, raised |-> "no",
     logged |-> FALSE, log |-> EmptyDict, forwarded |-> FALSE, built |-> FALSE,
     df |-> {}, fp |-> "None", written |-> FALSE, uploaded |-> FALSE,
     again |-> FALSE]

\* before_node_run: time.time() returns now + d
before_node_run(h, node, d) ==
    LET node_name == metric_name_func[node]
        t == now + d
    IN  /\ t \in Times
        /\ now' = t
        /\ _time_begin_dict' = dict_update(_time_begin_dict, node_name, t)
        /\ last' = [NoCall EXCEPT !.op = "before_node_run", !.hook = h,
                                  !.name = node_name]
        /\ UNCHANGED <<_time_end_dict, _time_dict, hooks, envVars>>

\* the body of after_node_run at clock value t: the end dict after line 78,
\* the exception raised, the duration dict after line 95, the effects observed
node_end(h, node, t, fwd_ok) ==
    LET node_name == metric_name_func[node]
        end_dict == dict_update(_time_end_dict, node_name, t)
        e == dict_get(end_dict, node_name)
        b == dict_get(_time_begin_dict, node_name)
        type_error == sub_raises(e, b)
        time_dict == dict_of(node_name, duration(e, b))
        forward == ~type_error /\ hooks[h].enable_mlflow
        raised == IF type_error THEN "TypeError"
                  ELSE IF forward /\ ~fwd_ok THEN "log_metrics"
                  ELSE "no"
    IN  [end_dict |-> end_dict,
         raised |-> raised,
         time_dict |-> IF raised = "no"
                       THEN dict_update(_time_dict, node_name, duration(e, b))
                       ELSE _time_dict,
         call |-> [NoCall EXCEPT !.op = "after_node_run", !.hook = h,
                                 !.name = node_name,
                                 !.raised = raised,
                                 !.logged = ~type_error,
                                 !.log = IF type_error THEN EmptyDict ELSE time_dict,
                                 !.forwarded = forward /\ fwd_ok]]

\* mutant: the end timestamp is stored at the end of the method, with the duration
after_node_run_end_late(h, node, d, fwd_ok) ==
    LET c == node_end(h, node, now + d, fwd_ok)
    IN  /\ now + d \in Times
        /\ now' = now + d
        /\ _time_end_dict' = IF c.raised = "no" THEN c.end_dict ELSE _time_end_dict
        /\ _time_dict' = c.time_dict
        /\ last' = c.call
        /\ UNCHANGED <<_time_begin_dict, hooks, envVars>>

\* after_node_run: time.time() returns now + d; log_metrics succeeds iff fwd_ok
after_node_run(h, node, d, fwd_ok) ==
    LET c == node_end(h, node, now + d, fwd_ok)
    IN  /\ now + d \in Times
        /\ now' = now + d
        /\ _time_end_dict' = c.end_dict
        /\ _time_dict' = c.time_dict
        /\ last' = c.call
        /\ UNCHANGED <<_time_begin_dict, hooks, envVars>>

\* mutant: Start and Finish left in seconds
gantt_rows_seconds(begin_dict, end_dict) ==
    {[Task |-> k,
      Start |-> dict_get(begin_dict, k),
      Finish |-> dict_get(end_dict, k)] : k \in DOMAIN begin_dict}

\* the row list: one dict(Task, Start, Finish) per key of the begin dict
gantt_rows(begin_dict, end_dict) ==
    {[Task |-> k,
      Start |-> dict_get(begin_dict, k) * MsPerSec,
      Finish |-> dict_get(end_dict, k) * MsPerSec] : k \in DOMAIN begin_dict}

\* None * 1000 raises TypeError
rows_raise(begin_dict, end_dict) ==
    \E k \in DOMAIN begin_dict :
        dict_get(begin_dict, k) = None \/ dict_get(end_dict, k) = None

\* self.enable_plotly and self._time_begin_dict
chart_guard(hook, begin_dict) == hook.enable_plotly /\ DOMAIN begin_dict # {}

\* self.gantt_filepath or (tempfile.gettempdir() + "/_gantt.html")
gantt_path(hook) ==
    IF hook.gantt_filepath = "None" THEN DefaultGanttPath ELSE hook.gantt_filepath

\* the body of after_pipeline_run: the effects observed
pipeline_end(h, write_ok, upload_ok) ==
    LET chart == chart_guard(hooks[h], _time_begin_dict)
        type_error == chart /\ rows_raise(_time_begin_dict, _time_end_dict)
        built == chart /\ ~type_error
        written == built /\ write_ok
        upload == written /\ hooks[h].enable_mlflow
        raised == IF type_error THEN "TypeError"
                  ELSE IF built /\ ~write_ok THEN "write_html"
                  ELSE IF upload /\ ~upload_ok THEN "log_artifact"
                  ELSE "no"
    IN  [NoCall EXCEPT !.op = "after_pipeline_run", !.hook = h,
                       !.raised = raised,
                       !.logged = TRUE,
                       !.log = _time_dict,
                       !.built = built,
                       !.df = IF built
                              THEN gantt_rows(_time_begin_dict, _time_end_dict)
                              ELSE {},
                       !.fp = IF built THEN gantt_path(hooks[h]) ELSE "None",
                       !.written = written,
                       !.uploaded = upload /\ upload_ok,
                       !.again = (last.op = "after_pipeline_run" /\ last.hook = h)]

\* mutant: the dicts are emptied once the run is reported
after_pipeline_run_reset(h, write_ok, upload_ok) ==
    /\ last' = pipeline_end(h, write_ok, upload_ok)
    /\ _time_begin_dict' = EmptyDict
    /\ _time_end_dict' = EmptyDict
    /\ _time_dict' = EmptyDict
    /\ UNCHANGED <<hooks, envVars, now>>

\* after_pipeline_run: write_html succeeds iff write_ok, log_artifact iff upload_ok
after_pipeline_run(h, write_ok, upload_ok) ==
    /\ last' = pipeline_end(h, write_ok, upload_ok)
    /\ UNCHANGED <<classVars, hooks, envVars, now>>

----------------------------------------------------------------------------
(* The state after the class is defined and the two instances are          *)
(* constructed.                                                            *)

NoOwner == [node |-> 0, t |-> None]

NoTask == [node |-> 0, start |-> None]

InitProgram ==
    /\ _time_begin_dict = EmptyDict
    /\ _time_end_dict = EmptyDict
    /\ _time_dict = EmptyDict
    /\ mlflow_found \in BOOLEAN
    /\ plotly_found \in BOOLEAN
    /\ hooks = [h \in HookIds |->
                  __init__(mlflow_found, plotly_found, HookArgs[h].enable_mlflow,
                           HookArgs[h].enable_plotly, HookArgs[h].gantt_filepath)]
    /\ now = 0
    /\ last = NoCall

InitHost ==
    /\ hostHook = 0
    /\ todo = {}
    /\ running = [i \in NodeIds |-> None]
    /\ failed = FALSE
    /\ task = NoTask
    /\ owner = [m \in Keys |-> NoOwner]

InitName ==
    /\ node_in = NodeX
    /\ name_out = <<>>

Init == InitProgram /\ InitHost /\ InitName

----------------------------------------------------------------------------
(* Any sequence of callbacks on any instances *)

TaskStart ==
    \E h \in HookIds, n \in Nodes, d \in 0..MaxTime :
        /\ before_node_run(h, n, d)
        /\ UNCHANGED <<hostVars, nameVars>>

\* the outcomes of an external call: drawn only for a hook that makes the call
outcomes(called) == IF called THEN BOOLEAN ELSE {TRUE}

TaskEnd ==
    \E h \in HookIds, n \in Nodes, d \in 0..MaxTime :
        \E fwd_ok \in outcomes(hooks[h].enable_mlflow) :
            /\ after_node_run(h, n, d, fwd_ok)
            /\ UNCHANGED <<hostVars, nameVars>>

PipelineEnd ==
    \E h \in HookIds :
        \E write_ok \in outcomes(hooks[h].enable_plotly),
           upload_ok \in outcomes(hooks[h].enable_mlflow) :
            /\ after_pipeline_run(h, write_ok, upload_ok)
            /\ UNCHANGED <<hostVars, nameVars>>

Next == TaskStart \/ TaskEnd \/ PipelineEnd

Spec == Init /\ [][Next]_vars

----------------------------------------------------------------------------
(* The host's order of callbacks: in each pipeline run, on the hook        *)
(* registered for the run, task-start then task-end for each task (tasks   *)
(* may overlap), and pipeline-end once every task has ended.  A run in     *)
(* which a callback raised gets no pipeline-end; the tasks already started *)
(* still get their task-end.                                               *)

\* the pipelines the host runs: no task, the two tasks X and Y whose metric
\* names coincide, the two tasks X and Z whose names differ
Pipelines == {{}, {NodeX.id, NodeY.id}, {NodeX.id, NodeZ.id}}

HostRunBegin ==
    \E h \in HookIds, pipeline \in Pipelines :
        /\ hostHook = 0
        /\ hostHook' = h
        /\ todo' = pipeline
        /\ UNCHANGED <<classVars, hooks, envVars, now, last, running, failed,
                       task, owner, nameVars>>

HostTaskStart ==
    \E i \in NodeIds, d \in 0..MaxTime :
        /\ hostHook # 0
        /\ ~failed
        /\ i \in todo
        /\ before_node_run(hostHook, node_by_id[i], d)
        /\ todo' = todo \ {i}
        /\ running' = [running EXCEPT ![i] = now + d]
        /\ task' = [node |-> i, start |-> now + d]
        /\ owner' = [owner EXCEPT ![metric_name_func[node_by_id[i]]] =
                                      [node |-> i, t |-> now + d]]
        /\ UNCHANGED <<hostHook, failed, nameVars>>

HostTaskEnd ==
    \E i \in NodeIds, d \in 0..MaxTime, fwd_ok \in BOOLEAN :
        /\ hostHook # 0
        /\ fwd_ok \in outcomes(hooks[hostHook].enable_mlflow)
        /\ running[i] # None
        /\ after_node_run(hostHook, node_by_id[i], d, fwd_ok)
        /\ running' = [running EXCEPT ![i] = None]
        /\ task' = [node |-> i, start |-> running[i]]
        /\ failed' = (failed \/ last'.raised # "no")
        /\ UNCHANGED <<hostHook, todo, owner, nameVars>>

HostPipelineEnd ==
    \E write_ok \in BOOLEAN, upload_ok \in BOOLEAN :
        /\ hostHook # 0
        /\ write_ok \in outcomes(hooks[hostHook].enable_plotly)
        /\ upload_ok \in outcomes(hooks[hostHook].enable_mlflow)
        /\ ~failed
        /\ todo = {}
        /\ \A i \in NodeIds : running[i] = None
        /\ after_pipeline_run(hostHook, write_ok, upload_ok)
        /\ hostHook' = 0
        /\ UNCHANGED <<todo, running, failed, task, owner, nameVars>>

HostRunAbort ==
    /\ hostHook # 0
    /\ failed
    /\ \A i \in NodeIds : running[i] = None
    /\ hostHook' = 0
    /\ todo' = {}
    /\ failed' = FALSE
    /\ UNCHANGED <<classVars, hooks, envVars, now, last, running, task, owner,
                   nameVars>>

NextHost ==
    HostRunBegin \/ HostTaskStart \/ HostTaskEnd \/ HostPipelineEnd \/ HostRunAbort

SpecHost == Init /\ [][NextHost]_vars

----------------------------------------------------------------------------
(* The metric-name derivation applied to bounded function names: a free    *)
(* part of at most MaxLen characters, before or after a run of one         *)
(* repeated character whose length is around the 250-character slice.     *)

Alphabet == {"<", ">", " ", ".", "a"}

PadChars == {"b", "<"}

PadLens == {0, MaxFuncNameLen - 1, MaxFuncNameLen, MaxFuncNameLen + 1}

FreeParts == UNION {[1..n -> Alphabet] : n \in 0..MaxLen}

pad(c, n) == [i \in 1..n |-> c]

FuncNames ==
    {s \o pad(c, n) : s \in FreeParts, c \in PadChars, n \in PadLens}
    \cup {pad(c, n) \o s : s \in FreeParts, c \in PadChars, n \in PadLens}

OutputLists == {<<>>, << <<"o">> >>, << <<"p">>, <<"<", "q", ">">> >>}

InitDerive ==
    /\ InitProgram
    /\ InitHost
    /\ \E f \in FuncNames, o \in OutputLists :
          node_in = [id |-> 0, _func_name |-> f, outputs |-> o]
    /\ name_out = <<>>

Derive ==
    /\ name_out = <<>>
    /\ name_out' = _get_metric_name(node_in)
    /\ UNCHANGED <<classVars, hooks, envVars, now, last, hostVars, node_in>>

NextName == Derive

SpecName == InitDerive /\ [][NextName]_vars

----------------------------------------------------------------------------
(* Properties.  t2, the clock value of the last task callback, is `now`.   *)

ANR == "after_node_run"
APR == "after_pipeline_run"

\* C1: when a task's start was recorded at t1, its end is invoked at t2 >= t1,
\* no other start under the same metric name came in between (the ending
\* node is the one whose start wrote the begin entry) and the call returns,
\* the duration dict holds t2 - t1 under the task's metric name.
C1_DurationIsEndMinusStart ==
    (last.op = ANR /\ last.raised = "no" /\ owner[last.name].node = task.node)
    => /\ task.start # None
       /\ task.start <= now
       /\ last.name \in DOMAIN _time_dict
       /\ _time_dict[last.name] = now - task.start

\* C1 witness: start "A" at 0, end at 2, the duration dict is {"A": 2}
C1_Witness ==
    /\ last.op = ANR
    /\ last.raised = "no"
    /\ owner[last.name].node = task.node
    /\ task.start = 0
    /\ now = 2
    /\ _time_dict = dict_of(last.name, 2)

\* C2: the derived metric name is "_time_to_run " + fn + " -- " + the outputs
\* joined by " - ", where fn has no '<' and no '>' and at most 250
\* characters, and the suffix is there in full whatever the length of fn.
C2_NameShape ==
    name_out # <<>> =>
        LET suffix == MetricSep \o str_join(OutputSep, node_in.outputs)
            fn_len == Len(name_out) - Len(MetricPrefix) - Len(suffix)
        IN  /\ fn_len >= 0
            /\ fn_len <= MaxFuncNameLen
            /\ SubSeq(name_out, 1, Len(MetricPrefix)) = MetricPrefix
            /\ SubSeq(name_out, Len(name_out) - Len(suffix) + 1, Len(name_out)) = suffix
            /\ \A i \in (Len(MetricPrefix) + 1)..(Len(MetricPrefix) + fn_len) :
                  name_out[i] \notin {"<", ">"}

\* C2 witness: a function name with brackets and more than 250 characters
\* left after the splits, cut to 250, followed by two outputs
C2_Witness ==
    /\ name_out # <<>>
    /\ Len(node_in._func_name) > MaxFuncNameLen + 1
    /\ \E i \in 1..Len(node_in._func_name) : node_in._func_name[i] = "<"
    /\ Len(node_in.outputs) = 2
    /\ Len(name_out) = Len(MetricPrefix) + MaxFuncNameLen + Len(MetricSep)
                       + Len(str_join(OutputSep, node_in.outputs))

\* C3: at pipeline-end the chart rows are built iff chart rendering is enabled
\* and the begin dict is non-empty; the rows are one per key of the begin
\* dict, with Start = begin * 1000 <= Finish = end * 1000; an artifact is
\* uploaded only when the chart was written and reporting is enabled.
C3_ChartRows ==
    last.op = APR =>
        /\ last.built <=> (hooks[last.hook].enable_plotly
                           /\ DOMAIN _time_begin_dict # {})
        /\ last.built =>
              /\ {r.Task : r \in last.df} = DOMAIN _time_begin_dict
              /\ Cardinality(last.df) = Cardinality(DOMAIN _time_begin_dict)
              /\ \A r \in last.df :
                    /\ r.Task \in DOMAIN _time_end_dict
                    /\ r.Start = _time_begin_dict[r.Task] * 1000
                    /\ r.Finish = _time_end_dict[r.Task] * 1000
                    /\ r.Start <= r.Finish
        /\ last.written => last.built
        /\ last.uploaded => (last.written /\ hooks[last.hook].enable_mlflow)

\* C3 witness: two tasks run one after the other, two rows, chart uploaded
C3_Witness ==
    /\ last.op = APR
    /\ last.uploaded
    /\ Cardinality(last.df) = 2
    /\ \E r1, r2 \in last.df :
          r1.Start = 0 /\ r1.Finish = 1000 /\ r2.Start = 1000 /\ r2.Finish = 2000

\* C4: pipeline-end leaves the three dicts as they are, and a pipeline-end
\* that follows a pipeline-end of the same hook with no task callback in
\* between logs the same duration dict and builds the same rows for the
\* same file path.
C4_PipelineEndIdempotent ==
    [][(last'.op = APR /\ last' # last) =>
          /\ _time_begin_dict' = _time_begin_dict
          /\ _time_end_dict' = _time_end_dict
          /\ _time_dict' = _time_dict
          /\ last'.again =>
                /\ last'.log = last.log
                /\ last'.built = last.built
                /\ last'.df = last.df
                /\ last'.fp = last.fp
                /\ (last'.raised = "TypeError") <=> (last.raised = "TypeError")]_vars

\* C4 witness: a second pipeline-end in a row that wrote the chart again
C4_Witness ==
    /\ last.op = APR
    /\ last.again
    /\ last.written
    /\ DOMAIN last.log # {}

\* reporting is off for hook h: mlflow is absent, or enable_mlflow=False was given
ReportingOff(h) == ~mlflow_found \/ ~HookArgs[h].enable_mlflow

\* the attributes are those the constructor set
FlagsAsConstructed ==
    hooks = [h \in HookIds |->
               [enable_mlflow |-> mlflow_found /\ HookArgs[h].enable_mlflow,
                enable_plotly |-> plotly_found /\ HookArgs[h].enable_plotly,
                gantt_filepath |-> HookArgs[h].gantt_filepath]]

\* C5 as stated: with reporting off no call forwards metrics or uploads an
\* artifact, the attributes stay as constructed, and every task-end and
\* every pipeline-end emits its log record.
C5_Original ==
    /\ FlagsAsConstructed
    /\ (last.op # "none" /\ ReportingOff(last.hook)) =>
          /\ ~last.forwarded
          /\ ~last.uploaded
          /\ last.op \in {ANR, APR} => last.logged

\* C5 amended: with reporting off no call forwards metrics or uploads an
\* artifact, the attributes stay as constructed, every pipeline-end emits
\* its log record, and a task-end emits it and returns exactly when the
\* begin dict has an entry for the metric name.
C5_NoForwardingWhenOff ==
    /\ FlagsAsConstructed
    /\ (last.op # "none" /\ ReportingOff(last.hook)) =>
          /\ ~last.forwarded
          /\ ~last.uploaded
          /\ last.op = APR => last.logged
          /\ last.op = ANR =>
                /\ last.logged <=> last.name \in DOMAIN _time_begin_dict
                /\ (last.raised = "no") <=> last.name \in DOMAIN _time_begin_dict

\* C5 witness: mlflow absent, a task-end on the default hook logs, forwards nothing
C5_Witness ==
    /\ ~mlflow_found
    /\ last.op = ANR
    /\ last.hook = 1
    /\ last.logged
    /\ last.raised = "no"
    /\ ~last.forwarded

\* C6 as stated: a task-end for a metric name with no begin entry does not
\* raise, logs a duration and stores it in the duration dict.
C6_Original ==
    (last.op = ANR /\ last.name \notin DOMAIN _time_begin_dict)
    => /\ last.raised = "no"
       /\ last.logged
       /\ last.name \in DOMAIN _time_dict

\* C6 amended: a task-end for a metric name with no begin entry records the
\* end timestamp and then raises TypeError: nothing is logged or forwarded
\* and the duration dict has no entry for the name.
C6_EndWithoutStartRaises ==
    (last.op = ANR /\ last.name \notin DOMAIN _time_begin_dict)
    => /\ last.raised = "TypeError"
       /\ ~last.logged
       /\ ~last.forwarded
       /\ last.name \in DOMAIN _time_end_dict
       /\ _time_end_dict[last.name] = now
       /\ last.name \notin DOMAIN _time_dict

\* C6 witness: a task-end without a start, after another task ran in full
C6_Witness ==
    /\ last.op = ANR
    /\ last.name \notin DOMAIN _time_begin_dict
    /\ last.raised = "TypeError"
    /\ DOMAIN _time_dict # {}

\* C7: no callback on any instance removes a key from the begin, end or
\* duration dict, and the rows of a pipeline-end chart every key of the
\* begin dict, whichever instance and run recorded it.
C7_KeysNeverLost ==
    [][/\ DOMAIN _time_begin_dict \subseteq DOMAIN _time_begin_dict'
       /\ DOMAIN _time_end_dict \subseteq DOMAIN _time_end_dict'
       /\ DOMAIN _time_dict \subseteq DOMAIN _time_dict'
       /\ (last'.op = APR /\ last'.built) =>
              {r.Task : r \in last'.df} = DOMAIN _time_begin_dict']_vars

\* C7 witness: the custom-path hook's second pipeline-end in a row charts the
\* two entries recorded before the first one
C7_Witness ==
    /\ last.op = APR
    /\ last.hook = 2
    /\ last.again
    /\ last.built
    /\ Cardinality(last.df) = 2
    /\ Cardinality(DOMAIN _time_dict) = 2

\* C8: when the task that ends is not the one whose start wrote the begin
\* entry (another task with the same metric name started in between), no
\* TypeError is raised, the begin entry is the later start, the end entry
\* is this end, the duration stored is measured from the later start; and a
\* chart has one row per metric name.
C8_CollidingNames ==
    /\ (last.op = ANR /\ owner[last.name].node # task.node) =>
          /\ metric_name_func[node_by_id[owner[last.name].node]] = last.name
          /\ last.raised # "TypeError"
          /\ _time_begin_dict[last.name] = owner[last.name].t
          /\ _time_end_dict[last.name] = now
          /\ last.raised = "no" =>
                _time_dict[last.name] = now - owner[last.name].t
    /\ (last.op = APR /\ last.built) =>
          /\ \A r1, r2 \in last.df : r1.Task = r2.Task => r1 = r2
          /\ Cardinality(last.df) <= Cardinality(MetricNames)

\* C8 witness: start X at 0, start Y at 1, end X at 2 while Y runs: the
\* duration stored is 1, not X's own 2
C8_Witness ==
    /\ last.op = ANR
    /\ last.raised = "no"
    /\ task.node = NodeX.id
    /\ task.start = 0
    /\ owner[last.name] = [node |-> NodeY.id, t |-> 1]
    /\ running[NodeY.id] = 1
    /\ now = 2
    /\ _time_dict[last.name] = 1

\* the duration dict changes only under the metric name of a task-end that returned
C9_Step ==
    \A k \in DOMAIN _time_dict' :
        (k \notin DOMAIN _time_dict \/ _time_dict'[k] # _time_dict[k])
        => /\ last'.op = ANR
           /\ last'.name = k
           /\ last'.raised = "no"

\* every duration key is a begin key and an end key; after a task-end that
\* returned the duration is the end entry minus the begin entry
C9_State ==
    /\ DOMAIN _time_dict \subseteq (DOMAIN _time_begin_dict \cap DOMAIN _time_end_dict)
    /\ (last.op = ANR /\ last.raised = "no") =>
          _time_dict[last.name] = _time_end_dict[last.name] - _time_begin_dict[last.name]

\* C9: in every reachable state every key of the duration dict is a key of
\* the begin dict and of the end dict, and a duration is stored only by a
\* task-end that returned, as the end entry minus the begin entry of that
\* moment.
C9_DurationKeys == []C9_State /\ [][C9_Step]_vars

\* C9 witness: a task-end without a start and one whose forwarding failed
\* left end entries without a duration
C9_Witness ==
    /\ last.op = ANR
    /\ last.raised = "log_metrics"
    /\ DOMAIN _time_dict = {}
    /\ Cardinality(DOMAIN _time_end_dict) = 2
    /\ Cardinality(DOMAIN _time_begin_dict) = 1

\* the host is about to invoke pipeline-end
PipelineEndDue ==
    /\ hostHook # 0
    /\ ~failed
    /\ todo = {}
    /\ \A i \in NodeIds : running[i] = None

\* C10: under the host's order of callbacks, when pipeline-end is invoked
\* every key of the begin dict has an end entry, and the row construction of
\* a pipeline-end never raises on a missing timestamp.
C10_RowsHaveFinish ==
    /\ PipelineEndDue => DOMAIN _time_begin_dict \subseteq DOMAIN _time_end_dict
    /\ last.op = APR =>
          /\ last.raised # "TypeError"
          /\ DOMAIN _time_begin_dict \subseteq DOMAIN _time_end_dict
          /\ hooks[last.hook].enable_plotly =>
                \A r \in last.df : r.Start >= 0 /\ r.Finish >= 0

\* C10 witness: a later run with no task of its own charts the two tasks of
\* the runs before it
C10_Witness ==
    /\ last.op = APR
    /\ last.again
    /\ last.built
    /\ Cardinality(last.df) = 2

====
